---- MODULE Spec2Model ----
(***************************************************************************)
(* Model of the job-execution engine and the dynamic command synthesis of  *)
(* pipeline-cli-go (src/cli/scripts.go).                                    *)
(*                                                                         *)
(*   Spec          jobExecution.run together with the producer of the      *)
(*                 message stream returned by Execute                      *)
(*   SpecSynth     scriptToCommand and addDataOption on a script descriptor *)
(*   SpecHandlers  the handlers inputFunc and optionFunc return, called by  *)
(*                 the argument parser                                      *)
(*   SpecValidate  validateOption applied to one value and one Data Type    *)
(***************************************************************************)
EXTENDS Integers, Sequences, FiniteSets, TLC

VARIABLES
    \* ---- jobExecution (scripts.go:55-62) and JobRequest.Background
    Background,     \* j.req.Background
    output,         \* j.output
    persistent,     \* j.persistent
    zipped,         \* j.zipped
    verbose,        \* j.verbose
    \* ---- locals of run (scripts.go:64-127)
    pc,             \* position of run
    storeId,        \* local storeId
    job,            \* job returned by Execute: [Id, Status]
    status,         \* local status
    ret,            \* error returned by run ("pending" while running)
    trace,          \* calls and prints of the run, in program order
    consumed,       \* messages taken from the channel by the range loop
    \* ---- the messages channel (unbuffered) and its producer
    offer,          \* message the producer is blocked sending, or NoMsg
    closed,         \* the producer closed the channel
    produced,       \* number of messages the producer has sent
    \* ---- the last-job-id file (LastIdPath)
    lastIdFile,     \* content of the file, NoFile when it does not exist
    lastIdOrig,     \* content of the file when the run started
    \* ---- scriptToCommand (scripts.go:155-243)
    script,         \* the script descriptor handed to scriptToCommand
    flags,          \* command.Flags(): the flags registered, in order
    spc,            \* position of the command synthesis
    given,          \* the flags given on the command line being parsed
    parseErr,       \* what the parse returned: "none" before, "nil", "missing"
    fnCalled,       \* the function of the command (scripts.go:166-171) ran
    \* ---- the handlers built by inputFunc and optionFunc (scripts.go:269-314)
    reqInputs,      \* req.Inputs: declared name -> URLs
    reqOptions,     \* req.Options: declared name -> values
    reqPriority,    \* req.Priority
    isLocal,        \* link.IsLocal()
    optionType,     \* optionType captured by the option handler
    sequence,       \* sequence captured by the option handler
    hkind,          \* the handler called last: "input", "option" or "none"
    hname,          \* the name it was called with
    hvalue,         \* the value it was called with
    hres,           \* what it returned: "nil", an error, or "panic"
    hcalls,         \* number of handler calls so far
    invocation,     \* number of the command line being parsed, from 1
    \* ---- one application of validateOption (scripts.go:324-378)
    vValue,         \* value
    vType,          \* optionType
    vLocal,         \* link.IsLocal()
    vResult,        \* (result, err) returned, NoResult before the call
    \* ---- one application of pathToUri (scripts.go:396-435)
    rPath,          \* path
    rLocal,         \* link.IsLocal(), which getBasePath turns into basePath
    rResult,        \* (u, err) returned, NoUri before the call
    \* ---- two invocations in storeLastId (scripts.go:437-449) at once
    fileBytes,      \* content of the file at LastIdPath, NoFile when absent
    wpc,            \* position of each invocation in storeLastId
    wid,            \* the id each invocation stores
    werr            \* what storeLastId returned to each invocation

runVars == <<Background, output, persistent, zipped, verbose, pc, storeId, job,
             status, ret, trace, consumed, offer, closed, produced, lastIdFile,
             lastIdOrig>>
synthVars == <<script, flags, spc, given, parseErr, fnCalled>>
handlerVars == <<reqInputs, reqOptions, reqPriority, isLocal, optionType, sequence, hkind,
                 hname, hvalue, hres, hcalls, invocation>>
validateVars == <<vValue, vType, vLocal, vResult>>
resolveVars == <<rPath, rLocal, rResult>>
storeVars == <<fileBytes, wpc, wid, werr>>
argVars == <<synthVars, handlerVars, validateVars, resolveVars, storeVars>>
vars == <<runVars, argVars>>

-----------------------------------------------------------------------------
(* Bounds *)

\* number of messages the producer may send on one stream
MaxMsgs == 2

-----------------------------------------------------------------------------
(* Values *)

NoScript == [Inputs |-> <<>>, Options |-> <<>>]
NoResult == [result |-> <<>>, err |-> "pending"]
NoUri == [u |-> [Scheme |-> "", Opaque |-> <<>>, Path |-> <<>>], err |-> "pending"]
EmptyMap == [k \in {} |-> <<>>]

\* the variables of the parts a specification does not exercise
NotParsed == given = {} /\ parseErr = "none" /\ fnCalled = FALSE
IdleSynth == script = NoScript /\ flags = <<>> /\ spc = "idle" /\ NotParsed
IdleHandlers ==
    /\ reqInputs = EmptyMap /\ reqOptions = EmptyMap /\ reqPriority = <<>>
    /\ isLocal = FALSE /\ optionType = [kind |-> "XsString"] /\ sequence = FALSE
    /\ hkind = "none" /\ hname = <<>> /\ hvalue = <<>> /\ hres = "none"
    /\ hcalls = 0 /\ invocation = 1
IdleValidate ==
    /\ vValue = <<>> /\ vType = [kind |-> "XsString"] /\ vLocal = FALSE
    /\ vResult = NoResult
IdleResolve == rPath = <<>> /\ rLocal = FALSE /\ rResult = NoUri

Statuses == {"IDLE", "RUNNING", "DONE", "ERROR"}
JobIds == {"job1", "job2"}
Outputs == {"", "out"}
NoJob == [Id |-> "", Status |-> ""]
NoMsg == [Error |-> "none", Status |-> ""]
NoFile == "<absent>"

\* the invocations that store their job id at the same time
Writers == {1, 2}
IdleStore ==
    /\ fileBytes = NoFile
    /\ wpc = [w \in Writers |-> "idle"]
    /\ wid = [w \in Writers |-> <<>>]
    /\ werr = [w \in Writers |-> "pending"]

\* a message of the stream: msg.Error is nil or an error, msg.Status a status
MsgErrors == {"errMsgA", "errMsgB"}
Messages == [Error : {"nil"} \cup MsgErrors, Status : Statuses]

Append2(s, a, b) == Append(Append(s, a), b)

\* trace events of the calls to the remote service (a failed call is
\* recorded with the suffix Failed)
RemoteCalls == {"Execute", "ExecuteFailed", "Results", "ResultsFailed",
                "Delete", "DeleteFailed"}

\* positions of an event kind in the trace
Pos(kind) == {i \in 1..Len(trace) : trace[i] = kind}
Happened(kind) == Pos(kind) # {}

-----------------------------------------------------------------------------
(* jobExecution.run *)

\* scripts.go:67  !j.req.Background && j.output == ""
OutputMissingSwapped == Background /\ output = ""
OutputMissing == ~Background /\ output = ""

\* scripts.go:73  storeId := j.req.Background || j.persistent
ShouldStoreBackgroundOnly == Background
ShouldStore == Background \/ persistent

\* scripts.go:90  msg.Error != nil
MsgIsErrorIgnored(m) == FALSE
MsgIsError(m) == m.Error # "nil"

\* scripts.go:101-103  status != "ERROR" and !j.req.Background
ShouldFinalizeAlsoOnError == ~Background
ShouldFinalizeAlsoBackground == status # "ERROR"
ShouldFinalize == status # "ERROR" /\ ~Background

\* scripts.go:108-110  a failed Results returns from run
AfterResultsErrorIgnored(ok) == "close"
AfterResults(ok) == IF ok THEN "close" ELSE "done"

\* scripts.go:115  !j.persistent
ShouldDeleteAlways == TRUE
ShouldDelete == ~persistent

InitRun ==
    /\ Background \in BOOLEAN
    /\ output \in Outputs
    /\ persistent \in BOOLEAN
    /\ zipped \in BOOLEAN
    /\ verbose \in BOOLEAN
    /\ pc = "start"
    /\ storeId = FALSE
    /\ job = NoJob
    /\ status = ""
    /\ ret = "pending"
    /\ trace = <<>>
    /\ consumed = <<>>
    /\ offer = NoMsg
    /\ closed = FALSE
    /\ produced = 0
    /\ lastIdFile \in {NoFile, "job0"}
    /\ lastIdOrig = lastIdFile
    /\ IdleSynth /\ IdleHandlers /\ IdleValidate /\ IdleResolve /\ IdleStore

\* scripts.go:65-73  manual check of output, warning, storeId
RunCheckOutput ==
    /\ pc = "start"
    /\ IF OutputMissing
       THEN /\ ret' = "errOutput"
            /\ pc' = "done"
            /\ UNCHANGED <<trace, storeId>>
       ELSE /\ trace' = IF Background /\ output # ""
                        THEN Append(trace, "Warning") ELSE trace
            /\ storeId' = ShouldStore
            /\ pc' = "execute"
            /\ UNCHANGED ret
    /\ UNCHANGED <<Background, output, persistent, zipped, verbose, job, status,
                   consumed, offer, closed, produced, lastIdFile, lastIdOrig>>
    /\ UNCHANGED argVars

\* scripts.go:80-88  after a successful Execute: the store of the job id when
\* storeId is set, then the range loop
AfterExecuteSkipsStream == "zip"
AfterExecute == IF storeId THEN "create" ELSE "status"

\* scripts.go:75-79  job, messages, err := j.link.Execute(*(j.req))
RunExecute ==
    /\ pc = "execute"
    /\ \E ok \in BOOLEAN, id \in JobIds, st \in Statuses :
          IF ok
          THEN /\ job' = [Id |-> id, Status |-> st]
               /\ trace' = Append2(trace, "Execute", "JobSent")
               /\ pc' = AfterExecute
               /\ UNCHANGED ret
          ELSE /\ trace' = Append(trace, "ExecuteFailed")
               /\ ret' = "errExecute"
               /\ pc' = "done"
               /\ UNCHANGED job
    /\ UNCHANGED <<Background, output, persistent, zipped, verbose, storeId,
                   status, consumed, offer, closed, produced, lastIdFile,
                   lastIdOrig>>
    /\ UNCHANGED argVars

\* scripts.go:81-86, 437-441  storeLastId: os.Create(LastIdPath)
StoreCreate ==
    /\ pc = "create"
    /\ \E ok \in BOOLEAN :
          IF ok
          THEN /\ lastIdFile' = ""
               /\ trace' = Append(trace, "Create")
               /\ pc' = "write"
               /\ UNCHANGED ret
          ELSE /\ trace' = Append(trace, "CreateFailed")
               /\ ret' = "errStore"
               /\ pc' = "done"
               /\ UNCHANGED lastIdFile
    /\ UNCHANGED <<Background, output, persistent, zipped, verbose, storeId, job,
                   status, consumed, offer, closed, produced, lastIdOrig>>
    /\ UNCHANGED argVars

\* scripts.go:442-448  file.Write([]byte(id)) and the deferred Close
StoreWrite ==
    /\ pc = "write"
    /\ \E ok \in BOOLEAN :
          IF ok
          THEN /\ lastIdFile' = job.Id
               /\ trace' = Append(trace, "Write")
               /\ pc' = "status"
               /\ UNCHANGED ret
          ELSE /\ trace' = Append(trace, "WriteFailed")
               /\ ret' = "errStore"
               /\ pc' = "done"
               /\ UNCHANGED lastIdFile
    /\ UNCHANGED <<Background, output, persistent, zipped, verbose, storeId, job,
                   status, consumed, offer, closed, produced, lastIdOrig>>
    /\ UNCHANGED argVars

\* scripts.go:88  status := job.Status
RunInitStatus ==
    /\ pc = "status"
    /\ status' = job.Status
    /\ pc' = "stream"
    /\ UNCHANGED <<Background, output, persistent, zipped, verbose, storeId, job,
                   ret, trace, consumed, offer, closed, produced, lastIdFile,
                   lastIdOrig>>
    /\ UNCHANGED argVars

\* scripts.go:98  status = msg.Status, whether or not the message was echoed
NextStatusOnlyWhenEchoed(m) == IF verbose THEN m.Status ELSE status
NextStatus(m) == m.Status

\* scripts.go:89-99  one iteration of  for msg := range messages
RunReceive ==
    /\ pc = "stream"
    /\ offer # NoMsg
    /\ consumed' = Append(consumed, offer)
    /\ offer' = NoMsg
    /\ IF MsgIsError(offer)
       THEN /\ ret' = offer.Error
            /\ pc' = "done"
            /\ trace' = Append(trace, "recv")
            /\ UNCHANGED status
       ELSE /\ trace' = IF verbose THEN Append2(trace, "recv", "echo")
                                   ELSE Append(trace, "recv")
            /\ status' = NextStatus(offer)
            /\ UNCHANGED <<ret, pc>>
    /\ UNCHANGED <<Background, output, persistent, zipped, verbose, storeId, job,
                   closed, produced, lastIdFile, lastIdOrig>>
    /\ UNCHANGED argVars

\* scripts.go:89  the range loop ends when the channel is closed and empty;
\* it has no other exit without a message
StreamEndedOnIdle == offer = NoMsg
StreamEnded == offer = NoMsg /\ closed

\* scripts.go:89, 101-103, 125-126  the range loop ends on a closed channel
RunStreamClosed ==
    /\ pc = "stream"
    /\ StreamEnded
    /\ trace' = Append(trace, "closed")
    /\ IF ShouldFinalize
       THEN pc' = "zip" /\ UNCHANGED ret
       ELSE pc' = "done" /\ ret' = "nil"
    /\ UNCHANGED <<Background, output, persistent, zipped, verbose, storeId, job,
                   status, consumed, offer, closed, produced, lastIdFile,
                   lastIdOrig>>
    /\ UNCHANGED argVars

\* scripts.go:104-107  wc, err := zipProcessor(j.output, j.zipped)
RunZipProcessor ==
    /\ pc = "zip"
    /\ \E ok \in BOOLEAN :
          IF ok THEN /\ trace' = Append(trace, "zipProcessor")
                     /\ pc' = "results"
                     /\ UNCHANGED ret
                ELSE /\ trace' = Append(trace, "zipProcessorFailed")
                     /\ pc' = "done"
                     /\ ret' = "errZip"
    /\ UNCHANGED <<Background, output, persistent, zipped, verbose, storeId, job,
                   status, consumed, offer, closed, produced, lastIdFile,
                   lastIdOrig>>
    /\ UNCHANGED argVars

\* scripts.go:108-110  j.link.Results(job.Id, wc)
RunResults ==
    /\ pc = "results"
    /\ \E ok \in BOOLEAN :
          /\ trace' = Append(trace, IF ok THEN "Results" ELSE "ResultsFailed")
          /\ pc' = AfterResults(ok)
          /\ ret' = IF ok THEN ret ELSE "errResults"
    /\ UNCHANGED <<Background, output, persistent, zipped, verbose, storeId, job,
                   status, consumed, offer, closed, produced, lastIdFile,
                   lastIdOrig>>
    /\ UNCHANGED argVars

\* scripts.go:111-115  wc.Close(), then the test of j.persistent
RunCloseWriter ==
    /\ pc = "close"
    /\ \E ok \in BOOLEAN :
          IF ok THEN /\ trace' = Append(trace, "Close")
                     /\ pc' = IF ShouldDelete THEN "delete" ELSE "report"
                     /\ UNCHANGED ret
                ELSE /\ trace' = Append(trace, "CloseFailed")
                     /\ pc' = "done"
                     /\ ret' = "errClose"
    /\ UNCHANGED <<Background, output, persistent, zipped, verbose, storeId, job,
                   status, consumed, offer, closed, produced, lastIdFile,
                   lastIdOrig>>
    /\ UNCHANGED argVars

\* scripts.go:116-120  j.link.Delete(job.Id)
RunDelete ==
    /\ pc = "delete"
    /\ \E ok \in BOOLEAN :
          IF ok THEN /\ trace' = Append2(trace, "Delete", "Deleted")
                     /\ pc' = "report"
                     /\ UNCHANGED ret
                ELSE /\ trace' = Append(trace, "DeleteFailed")
                     /\ pc' = "done"
                     /\ ret' = "errDelete"
    /\ UNCHANGED <<Background, output, persistent, zipped, verbose, storeId, job,
                   status, consumed, offer, closed, produced, lastIdFile,
                   lastIdOrig>>
    /\ UNCHANGED argVars

\* scripts.go:122-126  "Job finished with status", return nil
RunReport ==
    /\ pc = "report"
    /\ trace' = Append(trace, "Finished")
    /\ ret' = "nil"
    /\ pc' = "done"
    /\ UNCHANGED <<Background, output, persistent, zipped, verbose, storeId, job,
                   status, consumed, offer, closed, produced, lastIdFile,
                   lastIdOrig>>
    /\ UNCHANGED argVars

\* the channel exists once Execute has returned it
StreamOpen == job # NoJob /\ ~closed

\* the producer of the stream blocks sending one message on the channel
ProducerSend ==
    /\ StreamOpen
    /\ offer = NoMsg
    /\ produced < MaxMsgs
    /\ \E m \in Messages : offer' = m
    /\ produced' = produced + 1
    /\ UNCHANGED <<Background, output, persistent, zipped, verbose, pc, storeId,
                   job, status, ret, trace, consumed, closed, lastIdFile,
                   lastIdOrig>>
    /\ UNCHANGED argVars

\* the producer closes the channel once its last message was taken
ProducerClose ==
    /\ StreamOpen
    /\ offer = NoMsg
    /\ closed' = TRUE
    /\ UNCHANGED <<Background, output, persistent, zipped, verbose, pc, storeId,
                   job, status, ret, trace, consumed, offer, produced,
                   lastIdFile, lastIdOrig>>
    /\ UNCHANGED argVars

Next ==
    \/ RunCheckOutput
    \/ RunExecute
    \/ StoreCreate
    \/ StoreWrite
    \/ RunInitStatus
    \/ RunReceive
    \/ RunStreamClosed
    \/ RunZipProcessor
    \/ RunResults
    \/ RunCloseWriter
    \/ RunDelete
    \/ RunReport
    \/ ProducerSend
    \/ ProducerClose

Spec == InitRun /\ [][Next]_vars

\* the steps of run, which one goroutine executes in program order
RunStep ==
    \/ RunCheckOutput
    \/ RunExecute
    \/ StoreCreate
    \/ StoreWrite
    \/ RunInitStatus
    \/ RunReceive
    \/ RunStreamClosed
    \/ RunZipProcessor
    \/ RunResults
    \/ RunCloseWriter
    \/ RunDelete
    \/ RunReport

\* run keeps executing while it has a step to take (its calls return); nothing
\* is assumed of the producer
SpecLive == InitRun /\ [][Next]_vars /\ WF_vars(RunStep)

-----------------------------------------------------------------------------
(* Properties of jobExecution.run, checked under Spec *)

FailedCalls == {"ExecuteFailed", "CreateFailed", "WriteFailed",
                "zipProcessorFailed", "ResultsFailed", "CloseFailed",
                "DeleteFailed"}
StoreEvents == {"Create", "CreateFailed", "Write", "WriteFailed"}
FinalizeEvents == {"zipProcessor", "zipProcessorFailed", "Results",
                   "ResultsFailed", "Close", "CloseFailed", "Delete",
                   "DeleteFailed", "Deleted", "Finished"}
Events(kinds) == {i \in 1..Len(trace) : trace[i] \in kinds}

\* the error run returns for a failed call
ErrOf(ev) ==
    CASE ev = "ExecuteFailed" -> "errExecute"
      [] ev \in {"CreateFailed", "WriteFailed"} -> "errStore"
      [] ev = "zipProcessorFailed" -> "errZip"
      [] ev = "ResultsFailed" -> "errResults"
      [] ev = "CloseFailed" -> "errClose"
      [] ev = "DeleteFailed" -> "errDelete"

\* C1: a run with background false and an empty output destination returns
\* an error, and by then it has made no call to the remote service (Execute,
\* Results, Delete), has printed nothing and has not touched the last-job-id
\* file.
C1_MissingOutputFailsBeforeAnyCall ==
    (~Background /\ output = "" /\ pc # "start") =>
        /\ pc = "done"
        /\ ret = "errOutput"
        /\ trace = <<>>
        /\ job = NoJob
        /\ lastIdFile = lastIdOrig

C1_Witness == ~Background /\ output = "" /\ pc = "done" /\ ret = "errOutput"

\* C2 (as claimed): with background set, run takes no message from the
\* message stream: whatever the stream delivers after the submission, the
\* run has received none of it.
C2_BackgroundConsumesNoMessage ==
    Background => consumed = <<>>

\* C3: the id is stored (storeLastId is called) exactly in the runs whose
\* submission succeeded with background or persistent set; the store comes
\* after Execute returned and before the first message is received, and a
\* completed store leaves the raw job id in the file; a run with neither flag,
\* or whose submission failed, leaves the file as it was.
C3_StoreIffBackgroundOrPersistent ==
    /\ Events(StoreEvents) # {} =>
          /\ Background \/ persistent
          /\ \A i \in Events(StoreEvents) :
                /\ \E e \in Pos("Execute") : e < i
                /\ \A r \in Pos("recv") : i < r
    /\ (Happened("Execute") /\ (Background \/ persistent) /\ pc # "create") =>
          Events({"Create", "CreateFailed"}) # {}
    /\ (Happened("Create") /\ pc # "write") =>
          Events({"Write", "WriteFailed"}) # {}
    /\ Happened("Write") => lastIdFile = job.Id
    /\ Happened("recv") /\ (Background \/ persistent) => lastIdFile = job.Id
    /\ (~(Background \/ persistent) \/ ~Happened("Execute")) =>
          lastIdFile = lastIdOrig

C3_Witness ==
    /\ persistent /\ ~Background
    /\ Happened("Write") /\ Happened("recv")
    /\ lastIdFile = job.Id /\ lastIdFile # lastIdOrig

\* C4: Results is called only when the request is not in background mode and
\* the final observed status is not ERROR; in background mode nothing is
\* fetched, written or deleted whether or not an output destination was
\* given, and the destination only yields a warning: the run does not fail
\* on the output check.
C4_ResultsOnlyForegroundAndNoError ==
    /\ Events(FinalizeEvents) # {} => ~Background /\ status # "ERROR"
    /\ Background => Events(FinalizeEvents) = {}
    /\ (Background /\ pc # "start") =>
          /\ ret # "errOutput"
          /\ (output # "" <=> trace # <<>> /\ trace[1] = "Warning")
          /\ (pc = "done" => ret \in {"nil", "errExecute", "errStore"} \cup MsgErrors)

C4_Witness ==
    /\ Background /\ output # ""
    /\ pc = "done" /\ ret = "nil"
    /\ status # "ERROR" /\ Happened("closed")

C6_ErrorMessageEndsRun ==
    \A i \in 1..Len(consumed) :
        consumed[i].Error # "nil" =>
            /\ i = Len(consumed)
            /\ pc = "done"
            /\ ret = consumed[i].Error
            /\ trace[Len(trace)] = "recv"
            /\ Events(FinalizeEvents) = {}
            /\ status = IF i = 1 THEN job.Status ELSE consumed[i - 1].Status

C6_Witness ==
    /\ Len(consumed) = 2
    /\ consumed[1].Error = "nil" /\ consumed[1].Status = "DONE"
    /\ consumed[2].Error = "errMsgB"
    /\ pc = "done"

\* C7: a failed submission, store of the job id, result retrieval or deletion
\* makes run return that error, and the failed step is the last thing the run
\* does: no call to the remote service follows it (a failed Results is never
\* followed by Delete).
C7_ErrorAbortsRun ==
    /\ \A i \in Events(FailedCalls) :
          /\ i = Len(trace)
          /\ pc = "done"
          /\ ret = ErrOf(trace[i])
    /\ Happened("ResultsFailed") => Events({"Delete", "DeleteFailed"}) = {}
    /\ ret \in {"errExecute", "errStore", "errZip", "errResults", "errClose",
                "errDelete"} =>
          /\ pc = "done"
          /\ trace # <<>> /\ trace[Len(trace)] \in FailedCalls

C7_Witness ==
    /\ ~persistent /\ Happened("ResultsFailed")
    /\ pc = "done" /\ ret = "errResults"

-----------------------------------------------------------------------------
(* Strings are sequences of characters, so that prefixes, slices and splits *)
(* are computed as the Go code computes them.                               *)

n_output == <<"o", "u", "t", "p", "u", "t">>
n_zip == <<"z", "i", "p">>
n_nicename == <<"n", "i", "c", "e", "n", "a", "m", "e">>
n_priority == <<"p", "r", "i", "o", "r", "i", "t", "y">>
n_quiet == <<"q", "u", "i", "e", "t">>
n_persistent == <<"p", "e", "r", "s", "i", "s", "t", "e", "n", "t">>
n_background == <<"b", "a", "c", "k", "g", "r", "o", "u", "n", "d">>
n_data == <<"d", "a", "t", "a">>
n_source == <<"s", "o", "u", "r", "c", "e">>
n_i_output == <<"i", "-">> \o n_output
dashes == <<"-", "-">>
prefix_i == <<"i", "-">>
prefix_x == <<"x", "-">>

\* the control arguments of a script command, in registration order
\* (scripts.go:205-240)
ControlNames == <<n_output, n_zip, n_nicename, n_priority, n_quiet,
                  n_persistent, n_background>>

\* the control arguments named by the specification: those of scripts.go:205-240
\* and the data option of scripts.go:246
AllControlNames == {ControlNames[i] : i \in 1..Len(ControlNames)} \cup {n_data}

Range(f) == {f[i] : i \in DOMAIN f}

\* sequences over S of length at most n
SeqUpTo(S, n) == UNION {[1..k -> S] : k \in 0..n}

-----------------------------------------------------------------------------
(* scriptToCommand: the flags of a script command *)

\* declared inputs/options of one script descriptor
MaxInputs == 2
MaxOptions == 2

DeclNames == {n_source, n_output, n_data, n_priority, n_i_output}
InputDecls == [Name : DeclNames]
OptionDecls == [Name : DeclNames, Required : BOOLEAN]
Scripts == [Inputs : SeqUpTo(InputDecls, MaxInputs),
            Options : SeqUpTo(OptionDecls, MaxOptions)]

\* scripts.go:129
commonFlags == <<dashes \o n_output, dashes \o n_zip, dashes \o n_nicename,
                 dashes \o n_priority, dashes \o n_quiet,
                 dashes \o n_persistent, dashes \o n_background>>

\* scripts.go:146-152
flagsToString(fl) == [idx \in 1..Len(fl) |-> fl[idx].Long]

\* scripts.go:131-145
getFlagName(name, prefix, fl) ==
    LET flaggedName == dashes \o name
        allFlags == commonFlags \o flagsToString(fl)
    IN IF \E f \in 1..Len(allFlags) : allFlags[f] = flaggedName
       THEN prefix \o name
       ELSE name

\* command.AddOption / AddSwitch: the flag is appended to command.Flags(),
\* its Long being the name behind two dashes (the form commonFlags and
\* flaggedName are written in)
AddFlag(fl, name, kind, declared, must) ==
    Append(fl, [Long |-> dashes \o name, Kind |-> kind, Name |-> declared,
                Must |-> must])

\* scripts.go:174-187  one flag per declared input, always required
RECURSIVE AddInputs(_, _)
AddInputs(inputs, fl) ==
    IF inputs = <<>> THEN fl
    ELSE LET input == Head(inputs)
             name == getFlagName(input.Name, prefix_i, fl)
         IN AddInputs(Tail(inputs), AddFlag(fl, name, "input", input.Name, TRUE))

\* scripts.go:204  .Must(option.Required)
OptionMustAlways(option) == TRUE
OptionMust(option) == option.Required

\* scripts.go:189-204  one flag per declared option, required as declared
RECURSIVE AddOptions(_, _)
AddOptions(options, fl) ==
    IF options = <<>> THEN fl
    ELSE LET option == Head(options)
             name == getFlagName(option.Name, prefix_x, fl)
         IN AddOptions(Tail(options),
                       AddFlag(fl, name, "option", option.Name, OptionMust(option)))

\* scripts.go:205-240  output, zip, nicename, priority, quiet, persistent,
\* background
RECURSIVE AddControls(_, _)
AddControls(names, fl) ==
    IF names = <<>> THEN fl
    ELSE AddControls(Tail(names),
                     AddFlag(fl, Head(names), "control", Head(names), FALSE))

\* the job execution as scriptToCommand builds it (scripts.go:156-165), not run
IdleRun ==
    /\ Background = FALSE /\ output = "" /\ persistent = FALSE
    /\ zipped = FALSE /\ verbose = TRUE
    /\ pc = "idle" /\ storeId = FALSE /\ job = NoJob /\ status = ""
    /\ ret = "pending" /\ trace = <<>> /\ consumed = <<>>
    /\ offer = NoMsg /\ closed = FALSE /\ produced = 0
    /\ lastIdFile = NoFile /\ lastIdOrig = NoFile

InitSynth ==
    /\ script \in Scripts
    /\ flags = <<>>
    /\ spc = "new"
    /\ NotParsed
    /\ IdleRun /\ IdleHandlers /\ IdleValidate /\ IdleResolve /\ IdleStore

\* scripts.go:155-243  scriptToCommand
ScriptToCommand ==
    /\ spc = "new"
    /\ flags' = AddControls(ControlNames,
                    AddOptions(script.Options, AddInputs(script.Inputs, <<>>)))
    /\ spc' = "synthesized"
    /\ UNCHANGED <<script, given, parseErr, fnCalled, runVars, handlerVars,
                   validateVars, resolveVars, storeVars>>

\* scripts.go:245-265  ScriptCommand.addDataOption: the data option, required
AddDataOption ==
    /\ spc = "synthesized"
    /\ flags' = AddFlag(flags, n_data, "data", n_data, TRUE)
    /\ spc' = "withData"
    /\ UNCHANGED <<script, given, parseErr, fnCalled, runVars, handlerVars,
                   validateVars, resolveVars, storeVars>>

NextSynth == ScriptToCommand \/ AddDataOption

SpecSynth == InitSynth /\ [][NextSynth]_vars

\* the flags synthesized from the declared inputs and options
Synthesized == {i \in 1..Len(flags) : flags[i].Kind \in {"input", "option"}}
\* the flags of the control arguments
Controls == {i \in 1..Len(flags) : flags[i].Kind \in {"control", "data"}}
PrefixOf(kind) == IF kind = "input" THEN prefix_i ELSE prefix_x

\* C9 (as claimed): once the command is synthesized, every declared input or
\* option named like a control argument (output, zip, nicename, priority,
\* quiet, persistent, background, data) is exposed as i-<name> or x-<name>,
\* and no synthesized argument has the exposed name of a control argument.
C9_ControlNamesNeverCollide ==
    spc \in {"synthesized", "withData"} =>
        /\ \A i \in Synthesized :
              flags[i].Name \in AllControlNames =>
                  flags[i].Long = dashes \o PrefixOf(flags[i].Kind) \o flags[i].Name
        /\ \A i \in Synthesized, c \in Controls : flags[i].Long # flags[c].Long

\* the same for the seven control arguments scriptToCommand registers itself
CommonFlagsNeverCollide ==
    spc \in {"synthesized", "withData"} =>
        /\ \A i \in Synthesized :
              flags[i].Name \in Range(ControlNames) =>
                  flags[i].Long = dashes \o PrefixOf(flags[i].Kind) \o flags[i].Name
        /\ \A i \in Synthesized, c \in Controls :
              flags[c].Kind = "control" => flags[i].Long # flags[c].Long

-----------------------------------------------------------------------------
(* Parsing a command line against the flags of a script command *)

\* script descriptors whose declared names are a plain one and one that
\* collides with a control argument
ParseNames == {n_source, n_output}
ParseScripts ==
    {s \in Scripts :
        /\ \A i \in 1..Len(s.Inputs) : s.Inputs[i].Name \in ParseNames
        /\ \A i \in 1..Len(s.Options) : s.Options[i].Name \in ParseNames}

InitParse ==
    /\ script \in ParseScripts
    /\ flags = <<>>
    /\ spc = "new"
    /\ NotParsed
    /\ IdleRun /\ IdleHandlers /\ IdleValidate /\ IdleResolve /\ IdleStore

\* the exposed names of the flags that may be required: the control arguments
\* of scripts.go:205-240 are never required
RequirableLongs == {flags[i].Long : i \in Synthesized} \cup
                   {flags[i].Long : i \in {c \in Controls : flags[c].Kind = "data"}}

\* the required flags that are not on the command line
MissingFlags(g) == {i \in 1..Len(flags) : flags[i].Must /\ flags[i].Long \notin g}

\* the parser checks the required flags of the command and calls the function
\* of the command (scripts.go:166-171, which calls jExec.run) only when none
\* is missing
Parse ==
    /\ spc \in {"synthesized", "withData"}
    /\ \E g \in SUBSET RequirableLongs :
          /\ given' = g
          /\ IF MissingFlags(g) # {}
             THEN parseErr' = "missing" /\ fnCalled' = FALSE
             ELSE parseErr' = "nil" /\ fnCalled' = TRUE
    /\ spc' = "parsed"
    /\ UNCHANGED <<script, flags, runVars, handlerVars, validateVars, resolveVars, storeVars>>

NextParse == ScriptToCommand \/ AddDataOption \/ Parse

SpecParse == InitParse /\ [][NextParse]_vars

\* the flag registered for the i-th declared input, for the j-th declared option
InputFlag(i) == flags[i]
OptionFlag(j) == flags[Len(script.Inputs) + j]

\* a declared input, or an option declared required, is not on the command line
RequiredOmitted ==
    \/ \E i \in 1..Len(script.Inputs) : InputFlag(i).Long \notin given
    \/ \E j \in 1..Len(script.Options) :
          script.Options[j].Required /\ OptionFlag(j).Long \notin given

\* C13: every declared input is registered required and every declared option
\* is registered required exactly when its declaration says so; a command line
\* that omits a required input or option makes the parse fail, the function of
\* the command is not called and the job execution never starts.
C13_RequiredOmittedFailsBeforeRun ==
    /\ spc \in {"synthesized", "withData", "parsed"} =>
          /\ \A i \in 1..Len(script.Inputs) : InputFlag(i).Must
          /\ \A j \in 1..Len(script.Options) :
                OptionFlag(j).Must = script.Options[j].Required
    /\ (spc = "parsed" /\ RequiredOmitted) =>
          parseErr = "missing" /\ ~fnCalled /\ pc = "idle" /\ trace = <<>>

\* a required option is omitted while an optional one is omitted too, and the
\* parse failed
C13_Witness ==
    /\ spc = "parsed" /\ parseErr = "missing"
    /\ \A i \in 1..Len(script.Inputs) : InputFlag(i).Long \in given
    /\ \E j \in 1..Len(script.Options) :
          script.Options[j].Required /\ OptionFlag(j).Long \notin given
    /\ \E j \in 1..Len(script.Options) : ~script.Options[j].Required

\* the data option of scripts.go:245-265 is registered and not on the
\* command line
DataOmitted ==
    \E c \in Controls : flags[c].Kind = "data" /\ flags[c].Long \notin given

\* a command line that omits only optional options is accepted
OptionalOmittedAccepted ==
    (spc = "parsed" /\ ~RequiredOmitted /\ ~DataOmitted) =>
        parseErr = "nil" /\ fnCalled

-----------------------------------------------------------------------------
(* strconv.ParseBool, strconv.FormatBool and strconv.ParseInt(value, 0, 0), *)
(* on strings of characters                                                 *)

\* the strings strconv.ParseBool accepts
BoolTrue == {<<"1">>, <<"t">>, <<"T">>, <<"T", "R", "U", "E">>,
             <<"t", "r", "u", "e">>, <<"T", "r", "u", "e">>}
BoolFalse == {<<"0">>, <<"f">>, <<"F">>, <<"F", "A", "L", "S", "E">>,
              <<"f", "a", "l", "s", "e">>, <<"F", "a", "l", "s", "e">>}

\* scripts.go:329  b, err = strconv.ParseBool(value)
ParseBool(str) ==
    IF str \in BoolTrue THEN [val |-> TRUE, err |-> "nil"]
    ELSE IF str \in BoolFalse THEN [val |-> FALSE, err |-> "nil"]
    ELSE [val |-> FALSE, err |-> "syntax"]

\* scripts.go:331  strconv.FormatBool(b)
FormatBool(b) == IF b THEN <<"t", "r", "u", "e">> ELSE <<"f", "a", "l", "s", "e">>

DecDigits == <<"0", "1", "2", "3", "4", "5", "6", "7", "8", "9">>
LowerHex == <<"a", "b", "c", "d", "e", "f">>
UpperHex == <<"A", "B", "C", "D", "E", "F">>
IsDecDigit(c) == \E i \in 1..10 : DecDigits[i] = c
IsHexLetter(c) == \E i \in 1..6 : LowerHex[i] = c \/ UpperHex[i] = c

\* the value of a digit character; NotADigit for every character that is no
\* digit in any base up to 16 (strconv rejects it, or finds it >= base)
NotADigit == 99
DigitVal(c) ==
    IF IsDecDigit(c) THEN (CHOOSE i \in 1..10 : DecDigits[i] = c) - 1
    ELSE IF IsHexLetter(c)
         THEN (CHOOSE i \in 1..6 : LowerHex[i] = c \/ UpperHex[i] = c) + 9
         ELSE NotADigit

\* 2^64 and 2^63 as digit sequences in the bases a prefix can select
Pow64(base) ==
    CASE base = 2 -> <<1, 0, 0, 0, 0, 0, 0, 0, 0, 0, 0, 0, 0, 0, 0, 0, 0, 0, 0, 0, 0, 0, 0, 0, 0, 0, 0, 0, 0, 0, 0, 0, 0, 0, 0, 0, 0, 0, 0, 0, 0, 0, 0, 0, 0, 0, 0, 0, 0, 0, 0, 0, 0, 0, 0, 0, 0, 0, 0, 0, 0, 0, 0, 0, 0>>
      [] base = 8 -> <<2, 0, 0, 0, 0, 0, 0, 0, 0, 0, 0, 0, 0, 0, 0, 0, 0, 0, 0, 0, 0, 0>>
      [] base = 10 -> <<1, 8, 4, 4, 6, 7, 4, 4, 0, 7, 3, 7, 0, 9, 5, 5, 1, 6, 1, 6>>
      [] base = 16 -> <<1, 0, 0, 0, 0, 0, 0, 0, 0, 0, 0, 0, 0, 0, 0, 0, 0>>
Pow63(base) ==
    CASE base = 2 -> <<1, 0, 0, 0, 0, 0, 0, 0, 0, 0, 0, 0, 0, 0, 0, 0, 0, 0, 0, 0, 0, 0, 0, 0, 0, 0, 0, 0, 0, 0, 0, 0, 0, 0, 0, 0, 0, 0, 0, 0, 0, 0, 0, 0, 0, 0, 0, 0, 0, 0, 0, 0, 0, 0, 0, 0, 0, 0, 0, 0, 0, 0, 0, 0>>
      [] base = 8 -> <<1, 0, 0, 0, 0, 0, 0, 0, 0, 0, 0, 0, 0, 0, 0, 0, 0, 0, 0, 0, 0, 0>>
      [] base = 10 -> <<9, 2, 2, 3, 3, 7, 2, 0, 3, 6, 8, 5, 4, 7, 7, 5, 8, 0, 8>>
      [] base = 16 -> <<8, 0, 0, 0, 0, 0, 0, 0, 0, 0, 0, 0, 0, 0, 0, 0>>

\* a >= b and a > b for numbers written as digit sequences without leading zeros
RECURSIVE LexCmp(_, _)
LexCmp(a, b) ==
    IF a = <<>> THEN 0
    ELSE IF Head(a) # Head(b) THEN (IF Head(a) > Head(b) THEN 1 ELSE -1)
    ELSE LexCmp(Tail(a), Tail(b))
NumCmp(a, b) ==
    IF Len(a) # Len(b) THEN (IF Len(a) > Len(b) THEN 1 ELSE -1) ELSE LexCmp(a, b)

\* appending a digit to a number (no leading zeros are kept)
PushDigit(n, d) == IF n = <<>> /\ d = 0 THEN <<>> ELSE Append(n, d)

IsPrefixChar(c, lo, up) == c = lo \/ c = up

\* strconv.ParseUint, base 0: the base a prefix selects and the rest
UintBase(str) ==
    IF str[1] = "0"
    THEN IF Len(str) >= 3 /\ IsPrefixChar(str[2], "b", "B")
         THEN [base |-> 2, rest |-> SubSeq(str, 3, Len(str))]
         ELSE IF Len(str) >= 3 /\ IsPrefixChar(str[2], "o", "O")
         THEN [base |-> 8, rest |-> SubSeq(str, 3, Len(str))]
         ELSE IF Len(str) >= 3 /\ IsPrefixChar(str[2], "x", "X")
         THEN [base |-> 16, rest |-> SubSeq(str, 3, Len(str))]
         ELSE [base |-> 8, rest |-> Tail(str)]
    ELSE [base |-> 10, rest |-> str]

\* strconv.ParseUint: the digit loop; n is the number read so far
RECURSIVE UintLoop(_, _, _, _)
UintLoop(rest, base, n, underscores) ==
    IF rest = <<>> THEN [n |-> n, err |-> "nil", underscores |-> underscores]
    ELSE LET c == Head(rest) IN
         IF c = "_" THEN UintLoop(Tail(rest), base, n, TRUE)
         ELSE IF DigitVal(c) >= base
              THEN [n |-> <<>>, err |-> "syntax", underscores |-> underscores]
              ELSE LET n1 == PushDigit(n, DigitVal(c)) IN
                   IF NumCmp(n1, Pow64(base)) >= 0
                   THEN [n |-> n1, err |-> "range", underscores |-> underscores]
                   ELSE UintLoop(Tail(rest), base, n1, underscores)

\* strconv.underscoreOK: underscores only between digits or after a prefix
RECURSIVE UnderscoreScan(_, _, _)
UnderscoreScan(rest, saw, hex) ==
    IF rest = <<>> THEN saw # "_"
    ELSE LET c == Head(rest) IN
         IF IsDecDigit(c) \/ (hex /\ IsHexLetter(c))
         THEN UnderscoreScan(Tail(rest), "0", hex)
         ELSE IF c = "_"
              THEN saw = "0" /\ UnderscoreScan(Tail(rest), "_", hex)
              ELSE saw # "_" /\ UnderscoreScan(Tail(rest), "!", hex)
underscoreOK(str) ==
    LET s1 == IF Len(str) >= 1 /\ (str[1] = "-" \/ str[1] = "+")
              THEN Tail(str) ELSE str
        pre == Len(s1) >= 2 /\ s1[1] = "0"
               /\ (IsPrefixChar(s1[2], "b", "B") \/ IsPrefixChar(s1[2], "o", "O")
                   \/ IsPrefixChar(s1[2], "x", "X"))
    IN IF pre THEN UnderscoreScan(SubSeq(s1, 3, Len(s1)), "0",
                                  IsPrefixChar(s1[2], "x", "X"))
       ELSE UnderscoreScan(s1, "^", FALSE)

ParseUint(str) ==
    IF str = <<>> THEN [n |-> <<>>, base |-> 10, err |-> "syntax"]
    ELSE LET b == UintBase(str)
             r == UintLoop(b.rest, b.base, <<>>, FALSE)
         IN IF r.err # "nil" THEN [n |-> r.n, base |-> b.base, err |-> r.err]
            ELSE IF r.underscores /\ ~underscoreOK(str)
            THEN [n |-> r.n, base |-> b.base, err |-> "syntax"]
            ELSE [n |-> r.n, base |-> b.base, err |-> "nil"]

\* scripts.go:334  _, err = strconv.ParseInt(value, 0, 0)  (64-bit int)
ParseInt(str) ==
    IF str = <<>> THEN "syntax"
    ELSE LET neg == str[1] = "-"
             s1 == IF str[1] = "+" \/ str[1] = "-" THEN Tail(str) ELSE str
             u == ParseUint(s1)
         IN IF u.err # "nil" THEN u.err
            ELSE IF ~neg /\ NumCmp(u.n, Pow63(u.base)) >= 0 THEN "range"
            ELSE IF neg /\ NumCmp(u.n, Pow63(u.base)) > 0 THEN "range"
            ELSE "nil"

-----------------------------------------------------------------------------
(* getBasePath, pathToUri and the URLs they build *)

\* strings.HasPrefix(s, prefix): s begins with prefix
HasPrefix(str, prefix) ==
    Len(str) >= Len(prefix) /\ SubSeq(str, 1, Len(prefix)) = prefix

\* the working directory os.Getwd returns
Cwd == <<"/", "w">>

\* the paths os.Stat finds on the local filesystem: two regular files
ExistingPaths == {<<"a">>, <<"a", "b">>}

\* a path below a regular file: it does not exist, and os.Stat fails on it
\* with ENOTDIR, which os.IsNotExist does not recognise
UnderRegularFile(path) ==
    \E f \in ExistingPaths : HasPrefix(path, f \o <<"/">>)

\* scripts.go:418  _, err = os.Stat(path)
Stat(path) ==
    IF path \in ExistingPaths THEN "nil"
    ELSE IF UnderRegularFile(path) THEN "ENOTDIR"
    ELSE "ENOENT"

\* scripts.go:419  os.IsNotExist(err)
IsNotExist(err) == err = "ENOENT"

\* scripts.go:382-392
getBasePath(local) == IF local THEN Cwd \o <<"/">> ELSE <<>>

\* filepath.Separator of the platform
Separator == "/"

\* filepath.ToSlash: every separator of the platform becomes a slash
ToSlash(path) ==
    [i \in 1..Len(path) |-> IF path[i] = Separator THEN "/" ELSE path[i]]

\* url.URL.IsAbs
IsAbs(u) == u.Scheme # ""

\* scripts.go:396-435  the URL and the error returned.  The paths of the model
\* are plain relative names (no scheme, no dot segment, no escape), which
\* url.Parse accepts and ResolveReference appends to the base directory.
pathToUri(path, basePath) ==
    IF basePath # <<>>
    THEN LET base == IF basePath[1] # "/" THEN <<"/">> \o basePath ELSE basePath
             u == [Scheme |-> "file", Opaque |-> <<>>, Path |-> base \o ToSlash(path)]
             st == Stat(path)
         IN IF IsNotExist(st) THEN [u |-> u, err |-> st]
            ELSE IF u.Scheme # "file" \/ ~IsAbs(u)
                 THEN [u |-> u, err |-> "unexpected error"]
                 ELSE [u |-> u, err |-> "nil"]
    ELSE [u |-> [Scheme |-> "", Opaque |-> ToSlash(path), Path |-> <<>>],
          err |-> "nil"]

\* url.URL.String
UrlString(u) ==
    IF u.Opaque # <<>> THEN u.Opaque
    ELSE IF u.Scheme # "" THEN <<"f", "i", "l", "e", ":", "/", "/">> \o u.Path
    ELSE u.Path

\* length of the names of the paths handed to pathToUri
MaxName == 3

\* the paths handed to pathToUri: names, and a name below a name
PathChars == {"a", "b", "c"}
PathValues ==
    SeqUpTo(PathChars, MaxName) \cup
    {<<x, "/", y>> : x \in PathChars, y \in PathChars}

InitResolve ==
    /\ rPath \in PathValues
    /\ rLocal \in BOOLEAN
    /\ rResult = NoUri
    /\ IdleRun /\ IdleSynth /\ IdleHandlers /\ IdleValidate /\ IdleStore

\* scripts.go:272 and 396-435  one call of pathToUri on the base path of the
\* connection
Resolve ==
    /\ rResult = NoUri
    /\ rResult' = pathToUri(rPath, getBasePath(rLocal))
    /\ UNCHANGED <<rPath, rLocal, runVars, synthVars, handlerVars, validateVars,
                   storeVars>>

NextResolve == Resolve

SpecResolve == InitResolve /\ [][NextResolve]_vars

\* C15 (as claimed): in remote mode pathToUri succeeds for every path and
\* returns an opaque reference whose string form is the slash-normalized
\* path; in local mode it returns an error whenever the path does not exist
\* on the local filesystem, and otherwise an absolute URI with scheme file.
C15_RemoteOpaqueLocalIffExists ==
    rResult # NoUri =>
        IF ~rLocal
        THEN /\ rResult.err = "nil"
             /\ rResult.u.Scheme = "" /\ rResult.u.Path = <<>>
             /\ UrlString(rResult.u) = ToSlash(rPath)
        ELSE IF rPath \notin ExistingPaths
             THEN rResult.err # "nil"
             ELSE /\ rResult.err = "nil"
                  /\ rResult.u.Scheme = "file" /\ IsAbs(rResult.u)
                  /\ UrlString(rResult.u) =
                        <<"f", "i", "l", "e", ":", "/", "/">> \o Cwd
                            \o <<"/">> \o ToSlash(rPath)

\* the same for the paths os.Stat either finds or reports missing
RemoteOpaqueLocalIffStatFinds ==
    (rResult # NoUri /\ ~(rLocal /\ UnderRegularFile(rPath))) =>
        IF ~rLocal
        THEN /\ rResult.err = "nil"
             /\ UrlString(rResult.u) = ToSlash(rPath)
        ELSE IF rPath \notin ExistingPaths
             THEN rResult.err = "ENOENT"
             ELSE /\ rResult.err = "nil"
                  /\ rResult.u.Scheme = "file" /\ IsAbs(rResult.u)

-----------------------------------------------------------------------------
(* validateOption *)

\* regular expressions of the Pattern types of the model
p_any == <<".", "*">>
p_a_or_b == <<"a", "|", "b">>
p_bad == <<"(">>
Patterns == {p_any, p_a_or_b, p_bad}

\* scripts.go:351  regexp.MatchString("^(?:" + t.Pattern + ")$", value)
MatchString(pattern, value) ==
    CASE pattern = p_any -> [match |-> \A i \in 1..Len(value) : value[i] # "\n",
                              err |-> "nil"]
      [] pattern = p_a_or_b -> [match |-> value \in {<<"a">>, <<"b">>}, err |-> "nil"]
      [] pattern = p_bad -> [match |-> FALSE, err |-> "compile"]

\* the leaf Data Types; XsString stands for a type without a case of its own
LeafTypes ==
    {[kind |-> k] : k \in {"XsBoolean", "XsInteger", "XsAnyURI", "AnyFileURI",
                           "AnyDirURI", "XsString"}}
    \cup {[kind |-> "Pattern", Pattern |-> pt] : pt \in Patterns}
    \cup {[kind |-> "Value", Value |-> v] : v \in {<<"a">>, <<"1">>}}

\* the variants of a Choice: at most MaxVariants, nested MaxNesting deep
MaxVariants == 2
MaxNesting == 2
ChoicesOf(types) == {[kind |-> "Choice", Values |-> vs] : vs \in SeqUpTo(types, MaxVariants)}
InnerChoices ==
    { [kind |-> "Choice", Values |-> <<>>],
      [kind |-> "Choice", Values |-> <<[kind |-> "XsBoolean"]>>],
      [kind |-> "Choice", Values |-> <<[kind |-> "Value", Value |-> <<"a">>],
                                       [kind |-> "XsInteger"]>>] }
RECURSIVE TypesOfDepth(_)
TypesOfDepth(d) ==
    IF d = 0 THEN LeafTypes
    ELSE IF d = 1 THEN LeafTypes \cup ChoicesOf(LeafTypes)
    ELSE TypesOfDepth(d - 1) \cup ChoicesOf(LeafTypes \cup InnerChoices)
DataTypes == TypesOfDepth(MaxNesting)

NoErr == "nil"
\* scripts.go:374-376  "does not match <type>: <cause>"
Wrap(r) == IF r.err # NoErr THEN [result |-> r.result, err |-> "does not match"]
           ELSE r

\* scripts.go:324-378
RECURSIVE validateOption(_, _, _)
RECURSIVE ChoiceLoop(_, _, _, _)

\* scripts.go:357-362  the loop over t.Values; acc holds result and err
ChoiceLoop(value, values, local, acc) ==
    IF values = <<>> THEN acc
    ELSE LET r == validateOption(value, Head(values), local)
         IN IF r.err = NoErr THEN r
            ELSE ChoiceLoop(value, Tail(values), local, r)

validateOption(value, t, local) ==
    CASE t.kind = "XsBoolean" ->
           LET b == ParseBool(value)
           IN Wrap([result |-> IF b.err = NoErr THEN FormatBool(b.val) ELSE value,
                    err |-> b.err])
      [] t.kind = "XsInteger" ->
           Wrap([result |-> value, err |-> ParseInt(value)])
      [] t.kind = "XsAnyURI" ->
           [result |-> value, err |-> NoErr]
      [] t.kind \in {"AnyFileURI", "AnyDirURI"} ->
           LET r == pathToUri(value, getBasePath(local))
           IN Wrap([result |-> IF r.err = NoErr THEN UrlString(r.u) ELSE value,
                    err |-> r.err])
      [] t.kind = "Pattern" ->
           LET m == MatchString(t.Pattern, value)
           IN IF m.err = NoErr /\ ~m.match
              THEN [result |-> value, err |-> "does not match"]
              ELSE Wrap([result |-> value, err |-> m.err])
      [] t.kind = "Choice" ->
           LET r == ChoiceLoop(value, t.Values, local,
                               [result |-> value, err |-> NoErr])
           IN IF r.err # NoErr
              THEN [result |-> r.result, err |-> "does not match"]
              ELSE r
      [] t.kind = "Value" ->
           IF t.Value # value
           THEN [result |-> value, err |-> "does not match"]
           ELSE [result |-> value, err |-> NoErr]
      [] OTHER -> [result |-> value, err |-> NoErr]

\* C10 values: strings handed to validateOption
OptionValues ==
    { <<>>, <<"1">>, <<"0">>, <<"T">>, <<"t", "r", "u", "e">>,
      <<"t", "R", "U", "E">>, <<"a">>, <<"b">>, <<"a", "b">>, <<"c">>,
      <<"4", "2">>, <<"-", "7">>, <<"0", "x", "1", "f">>, <<"0", "8">>,
      <<"1", "_", "0">>, <<"1", "_">>, <<"1", ",", "a">>, <<"a", "/", "c">> }

InitValidate ==
    /\ vValue \in OptionValues
    /\ vType \in DataTypes
    /\ vLocal \in BOOLEAN
    /\ vResult = NoResult
    /\ IdleRun /\ IdleSynth /\ IdleHandlers /\ IdleResolve /\ IdleStore

\* scripts.go:324-378  one call of validateOption
Validate ==
    /\ vResult = NoResult
    /\ vResult' = validateOption(vValue, vType, vLocal)
    /\ UNCHANGED <<vValue, vType, vLocal, runVars, synthVars, handlerVars,
                   resolveVars, storeVars>>

NextValidate == Validate

SpecValidate == InitValidate /\ [][NextValidate]_vars

\* the variants of the Choice under validation that accept the value
Accepting ==
    {i \in 1..Len(vType.Values) :
        validateOption(vValue, vType.Values[i], vLocal).err = NoErr}

\* C10 (as claimed): for every Choice, the empty one and nested ones
\* included, validateOption succeeds iff at least one listed variant validates
\* the value, and then the result is the normalization of the first such
\* variant in declared order.
C10_ChoiceIffSomeVariant ==
    (vResult # NoResult /\ vType.kind = "Choice") =>
        /\ vResult.err = NoErr <=> Accepting # {}
        /\ Accepting # {} =>
              LET first == CHOOSE i \in Accepting : \A j \in Accepting : i <= j
              IN vResult.result =
                     validateOption(vValue, vType.Values[first], vLocal).result

\* the same for the Choices that list at least one variant
ChoiceIffSomeVariantNonEmpty ==
    (vResult # NoResult /\ vType.kind = "Choice" /\ vType.Values # <<>>) =>
        /\ vResult.err = NoErr <=> Accepting # {}
        /\ Accepting # {} =>
              LET first == CHOOSE i \in Accepting : \A j \in Accepting : i <= j
              IN vResult.result =
                     validateOption(vValue, vType.Values[first], vLocal).result

\* the values a Data Type admits (spec 3): the tolerant boolean grammar, the
\* base-prefixed 64-bit integers, any URI, a path that exists (checked in local
\* mode only), a full match of the pattern, one of the variants, the literal
RECURSIVE InDomain(_, _, _)
InDomain(value, t, local) ==
    CASE t.kind = "XsBoolean" -> value \in BoolTrue \cup BoolFalse
      [] t.kind = "XsInteger" -> ParseInt(value) = "nil"
      [] t.kind \in {"AnyFileURI", "AnyDirURI"} ->
           local => value \in ExistingPaths
      [] t.kind = "Pattern" ->
           LET m == MatchString(t.Pattern, value) IN m.err = "nil" /\ m.match
      [] t.kind = "Choice" ->
           \E i \in 1..Len(t.Values) : InDomain(value, t.Values[i], local)
      [] t.kind = "Value" -> value = t.Value
      [] OTHER -> TRUE

\* a Choice without variants occurs in the type
RECURSIVE HasEmptyChoice(_)
HasEmptyChoice(t) ==
    t.kind = "Choice" /\ (t.Values = <<>>
                          \/ \E i \in 1..Len(t.Values) : HasEmptyChoice(t.Values[i]))

\* C11 (as claimed): validateOption yields exactly one of a normalized value
\* or an error: an error comes with the raw value only, a success comes
\* without error, and a value outside the domain of the type is never
\* accepted.
C11_ValidateTotalAndSound ==
    vResult # NoResult =>
        /\ vResult.err \in {NoErr, "does not match"}
        /\ vResult.err # NoErr => vResult.result = vValue
        /\ vResult.err = NoErr => InDomain(vValue, vType, vLocal)

\* the same for the types in which every Choice lists a variant, and the
\* values os.Stat either finds or reports missing
TotalAndSoundWithoutEmptyChoice ==
    (vResult # NoResult /\ ~HasEmptyChoice(vType)
     /\ ~(vLocal /\ UnderRegularFile(vValue))) =>
        /\ vResult.err \in {NoErr, "does not match"}
        /\ vResult.err # NoErr => vResult.result = vValue
        /\ (vResult.err = NoErr <=> InDomain(vValue, vType, vLocal))

-----------------------------------------------------------------------------
(* inputFunc and optionFunc: the handlers of the declared inputs and options *)

\* strings.Split(value, ","): the elements between the commas, at least one
RECURSIVE SplitFrom(_, _, _)
SplitFrom(rest, cur, out) ==
    IF rest = <<>> THEN Append(out, cur)
    ELSE IF Head(rest) = "," THEN SplitFrom(Tail(rest), <<>>, Append(out, cur))
    ELSE SplitFrom(Tail(rest), Append(cur, Head(rest)), out)
Split(value) == SplitFrom(value, <<>>, <<>>)

\* m[key] = append(m[key], v) on a Go map
MapAppend(m, key, v) ==
    [k \in DOMAIN m \cup {key} |->
        IF k = key THEN (IF key \in DOMAIN m THEN Append(m[key], v) ELSE <<v>>)
        ELSE m[k]]

\* scripts.go:273-275 and 293-295  strings.HasPrefix("i-", name) followed by
\* name = name[2:]; the slice panics when name is shorter than two characters
StripPrefix(prefix, name) ==
    IF HasPrefix(prefix, name)
    THEN IF Len(name) < 2 THEN [name |-> name, panic |-> TRUE]
         ELSE [name |-> SubSeq(name, 3, Len(name)), panic |-> FALSE]
    ELSE [name |-> name, panic |-> FALSE]

\* scripts.go:277-284  the loop over strings.Split(value, ",")
RECURSIVE InputLoop(_, _, _, _)
InputLoop(paths, name, basePath, inputs) ==
    IF paths = <<>> THEN [Inputs |-> inputs, err |-> NoErr]
    ELSE LET r == pathToUri(Head(paths), basePath)
         IN IF r.err # NoErr THEN [Inputs |-> inputs, err |-> r.err]
            ELSE InputLoop(Tail(paths), name, basePath,
                           MapAppend(inputs, name, r.u))

\* scripts.go:270-286  the handler inputFunc returns
inputFunc(name, value, inputs, local) ==
    LET basePath == getBasePath(local)
        st == StripPrefix(prefix_i, name)
    IN IF st.panic THEN [Inputs |-> inputs, err |-> "panic"]
       ELSE InputLoop(Split(value), st.name, basePath, inputs)

\* scripts.go:298-304  the loop over the elements of a sequence option
OptionLoopAllOrNothing(vs, name, t, local, options) ==
    IF \E i \in 1..Len(vs) : validateOption(vs[i], t, local).err # NoErr
    THEN [Options |-> options, err |-> "validationError"]
    ELSE [Options |->
             [k \in DOMAIN options \cup {name} |->
                 (IF k \in DOMAIN options THEN options[k] ELSE <<>>) \o
                 (IF k = name
                  THEN [i \in 1..Len(vs) |-> validateOption(vs[i], t, local).result]
                  ELSE <<>>)],
          err |-> NoErr]
RECURSIVE OptionLoop(_, _, _, _, _)
OptionLoop(vs, name, t, local, options) ==
    IF vs = <<>> THEN [Options |-> options, err |-> NoErr]
    ELSE LET r == validateOption(Head(vs), t, local)
         IN IF r.err # NoErr THEN [Options |-> options, err |-> "validationError"]
            ELSE OptionLoop(Tail(vs), name, t, local,
                            MapAppend(options, name, r.result))

\* scripts.go:292-313  the handler optionFunc returns
optionFunc(name, value, options, t, seq, local) ==
    LET st == StripPrefix(prefix_x, name)
    IN IF st.panic THEN [Options |-> options, err |-> "panic"]
       ELSE IF seq THEN OptionLoop(Split(value), st.name, t, local, options)
       ELSE OptionLoop(<<value>>, st.name, t, local, options)

\* number of handler calls of one command line
MaxCalls == 2

\* names the handlers are called with: a declared name, a prefixed exposed
\* name, and the one-letter names a script may declare
InputFlagNames == {n_source, prefix_i \o n_output, <<"i">>}
OptionFlagNames == {n_source, prefix_x \o n_output, <<"x">>}
InputValues == {<<>>, <<"a">>, <<"b">>, <<"a", ",", "a", "b">>,
                <<"a", ",", "b">>, <<"b", ",", "a">>}
HandlerOptionValues == {<<>>, <<"1">>, <<"a">>, <<"T", ",", "0">>,
                        <<"1", ",", "a">>, <<"a", ",", "1">>}
HandlerTypes == {[kind |-> "XsBoolean"], [kind |-> "XsAnyURI"],
                 [kind |-> "Value", Value |-> <<"a">>],
                 [kind |-> "AnyFileURI"]}

InitHandlers ==
    /\ reqInputs = EmptyMap /\ reqOptions = EmptyMap /\ reqPriority = <<>>
    /\ isLocal \in BOOLEAN
    /\ optionType \in HandlerTypes
    /\ sequence \in BOOLEAN
    /\ hkind = "none" /\ hname = <<>> /\ hvalue = <<>> /\ hres = "none"
    /\ hcalls = 0 /\ invocation = 1
    /\ IdleRun /\ IdleSynth /\ IdleValidate /\ IdleResolve /\ IdleStore

\* the parser calls handlers until one fails
CanCall == hcalls < MaxCalls /\ hres \in {"none", "nil"}

\* scripts.go:269-287  the handler of an input is called
InputFunc ==
    /\ CanCall
    /\ \E name \in InputFlagNames, value \in InputValues :
          LET r == inputFunc(name, value, reqInputs, isLocal)
          IN /\ reqInputs' = r.Inputs
             /\ hres' = r.err
             /\ hkind' = "input" /\ hname' = name /\ hvalue' = value
    /\ hcalls' = hcalls + 1
    /\ UNCHANGED invocation
    /\ UNCHANGED <<reqOptions, reqPriority, isLocal, optionType, sequence, runVars,
                   synthVars, validateVars, resolveVars, storeVars>>

\* scripts.go:291-314  the handler of an option is called
OptionFunc ==
    /\ CanCall
    /\ \E name \in OptionFlagNames, value \in HandlerOptionValues :
          LET r == optionFunc(name, value, reqOptions, optionType, sequence,
                              isLocal)
          IN /\ reqOptions' = r.Options
             /\ hres' = r.err
             /\ hkind' = "option" /\ hname' = name /\ hvalue' = value
    /\ hcalls' = hcalls + 1
    /\ UNCHANGED invocation
    /\ UNCHANGED <<reqInputs, reqPriority, isLocal, optionType, sequence, runVars,
                   synthVars, validateVars, resolveVars, storeVars>>

\* the values the priority argument is given
p_high == <<"h", "i", "g", "h">>
p_medium == <<"m", "e", "d", "i", "u", "m">>
p_low == <<"l", "o", "w">>
p_urgent == <<"u", "r", "g", "e", "n", "t">>
PriorityValues == {p_high, p_medium, p_low, p_urgent, <<>>,
                   <<"H", "i", "g", "h">>, <<"l", "o">>}

\* checkPriority: the three values of the priority enumeration
checkPriority(priority) == priority \in {p_high, p_medium, p_low}

\* scripts.go:224  the text of the error after the rejected value
PriorityError == "is not a valid priority. Allowed values are high, medium and low"

\* scripts.go:219-227  the handler of the priority argument: the priority of
\* the request after the call, and the error returned
priorityFuncStoresFirst(priority, cur) ==
    IF checkPriority(priority)
    THEN [Priority |-> priority, err |-> "nil"]
    ELSE [Priority |-> priority, err |-> PriorityError]
priorityFunc(priority, cur) ==
    IF checkPriority(priority)
    THEN [Priority |-> priority, err |-> "nil"]
    ELSE [Priority |-> cur, err |-> PriorityError]

\* scripts.go:219-227  the handler of the priority argument is called
PriorityFunc ==
    /\ CanCall
    /\ \E priority \in PriorityValues :
          LET r == priorityFunc(priority, reqPriority)
          IN /\ reqPriority' = r.Priority
             /\ hres' = r.err
             /\ hkind' = "priority" /\ hname' = n_priority
             /\ hvalue' = priority
    /\ hcalls' = hcalls + 1
    /\ UNCHANGED invocation
    /\ UNCHANGED <<reqInputs, reqOptions, isLocal, optionType, sequence,
                   runVars, synthVars, validateVars, resolveVars, storeVars>>

\* command lines one process hands to the same script command
MaxInvocations == 2

\* the same command is handed another command line: its handlers are the
\* closures scriptToCommand built (scripts.go:186, 204, 219) over the request
\* of scripts.go:156, and nothing replaces or empties that request
NewInvocation ==
    /\ hkind # "none"
    /\ invocation < MaxInvocations
    /\ invocation' = invocation + 1
    /\ hkind' = "none" /\ hname' = <<>> /\ hvalue' = <<>> /\ hres' = "none"
    /\ UNCHANGED <<reqInputs, reqOptions, reqPriority, isLocal, optionType,
                   sequence, hcalls, runVars, synthVars, validateVars,
                   resolveVars, storeVars>>

NextHandlers == InputFunc \/ OptionFunc \/ PriorityFunc \/ NewInvocation

SpecHandlers == InitHandlers /\ [][NextHandlers]_vars

\* C8 (as claimed): a handler called under a prefixed exposed name (i-<name>
\* for an input, x-<name> for an option) that succeeds has stripped the
\* prefix: the value is stored in the Job Request under <name>, and nothing
\* is stored under the prefixed name.
C8_PrefixStrippedBeforeStore ==
    /\ (hkind = "input" /\ hres = "nil" /\ HasPrefix(hname, prefix_i)) =>
          /\ SubSeq(hname, 3, Len(hname)) \in DOMAIN reqInputs
          /\ hname \notin DOMAIN reqInputs
    /\ (hkind = "option" /\ hres = "nil" /\ HasPrefix(hname, prefix_x)) =>
          /\ SubSeq(hname, 3, Len(hname)) \in DOMAIN reqOptions
          /\ hname \notin DOMAIN reqOptions

\* scripts.go:131-145  the declared name behind an exposed flag name:
\* getFlagName exposes <name> as <prefix><name> exactly when <name> is the
\* name of a control flag
DeclaredName(name, prefix) ==
    IF HasPrefix(name, prefix) /\ SubSeq(name, 3, Len(name)) \in AllControlNames
    THEN SubSeq(name, 3, Len(name))
    ELSE name

\* scripts.go:296-311  the elements the handler validates: the pieces of the
\* raw value for a sequence option, the whole raw value otherwise
OptionElements(value, seq) == IF seq THEN Split(value) ELSE <<value>>

\* scripts.go:299 and 306  the normalization of each element
Normalized(vs, t, local) ==
    [i \in 1..Len(vs) |-> validateOption(vs[i], t, local).result]

\* req.Options[name] read on a Go map: the empty list for an absent key
ValuesUnder(m, key) == IF key \in DOMAIN m THEN m[key] ELSE <<>>

\* a step in which the option handler was called and returned no error
OptionCallSucceeded ==
    hcalls' = hcalls + 1 /\ hkind' = "option" /\ hres' = "nil"

\* C12 (as claimed): a successful call of the option handler appends, under
\* the option's declared name, the normalization of every element of the raw
\* value in order (n values for a sequence option of n elements, exactly one
\* value for the whole raw string otherwise).
C12_SequenceAppendsInOrder ==
    [][OptionCallSucceeded =>
          LET key == DeclaredName(hname', prefix_x)
              elems == OptionElements(hvalue', sequence)
          IN ValuesUnder(reqOptions', key) =
                ValuesUnder(reqOptions, key)
                    \o Normalized(elems, optionType, isLocal)]_vars

\* the same appending holds under the name the handler was called with
AppendsInOrderUnderHandlerName ==
    [][OptionCallSucceeded =>
          LET elems == OptionElements(hvalue', sequence)
          IN /\ ValuesUnder(reqOptions', hname') =
                   ValuesUnder(reqOptions, hname')
                       \o Normalized(elems, optionType, isLocal)
             /\ \A k \in DOMAIN reqOptions \ {hname'} :
                   reqOptions'[k] = reqOptions[k]]_vars

\* a step in which the priority handler was called
PriorityCalled == hcalls' = hcalls + 1 /\ hkind' = "priority"

\* C14: the priority handler accepts exactly high, medium and low; an accepted
\* value becomes the priority of the Job Request, any other value returns the
\* error that enumerates the allowed values and leaves the priority of the
\* Job Request as it was.
C14_PriorityOnlyHighMediumLow ==
    [][PriorityCalled =>
          IF hvalue' \in {p_high, p_medium, p_low}
          THEN hres' = "nil" /\ reqPriority' = hvalue'
          ELSE hres' = PriorityError /\ reqPriority' = reqPriority]_vars

\* urgent was rejected after high had been stored, and high is still stored
C14_Witness ==
    /\ hkind = "priority" /\ hvalue = p_urgent /\ hres = PriorityError
    /\ reqPriority = p_high

\* a step in which the option handler was called and returned a validation
\* error
OptionCallFailed ==
    hcalls' = hcalls + 1 /\ hkind' = "option" /\ hres' = "validationError"

\* the elements of vs that fail validation
Failing(vs, t, local) ==
    {k \in 1..Len(vs) : validateOption(vs[k], t, local).err # NoErr}

\* the smallest element of a non-empty set of numbers
Min(S) == CHOOSE k \in S : \A j \in S : k <= j

\* the request after vs was appended under key and nothing else was touched
WithAppended(m, key, vs) ==
    IF vs = <<>> THEN m
    ELSE [k \in DOMAIN m \cup {key} |->
             IF k = key THEN ValuesUnder(m, key) \o vs ELSE m[k]]

\* C16: when an option handler returns a validation error, some element k of
\* the value failed validation; for a sequence option the request holds, after
\* the call, what it held before followed by the normalized elements 1..k-1
\* and nothing of the elements from k on; for a scalar option the request is
\* as it was before the call.
C16_PartialSuccessKept ==
    [][OptionCallFailed =>
          LET elems == OptionElements(hvalue', sequence)
              bad == Failing(elems, optionType, isLocal)
          IN /\ bad # {}
             /\ \E key \in DOMAIN reqOptions' \cup {hname'} :
                   reqOptions' =
                      WithAppended(reqOptions, key,
                          Normalized(SubSeq(elems, 1, Min(bad) - 1),
                                     optionType, isLocal))
             /\ ~sequence => reqOptions' = reqOptions]_vars

\* the sequence value 1,a failed on a as a boolean, and the normalization of 1
\* stays in the request
C16_Witness ==
    /\ hkind = "option" /\ hres = "validationError" /\ sequence
    /\ optionType.kind = "XsBoolean"
    /\ hvalue = <<"1", ",", "a">>
    /\ ValuesUnder(reqOptions, hname) = <<FormatBool(TRUE)>>

\* run sits in the range loop, the stream is open and offers nothing
WaitingOnStream == pc = "stream" /\ offer = NoMsg /\ ~closed

\* the producer has closed the stream or offers an error-bearing message
StreamOver == closed \/ (offer # NoMsg /\ MsgIsError(offer))

\* C17: run leaves the range loop only on a closed stream or on an
\* error-bearing message; while the stream is open and offers nothing run
\* takes no step (no call, no print, no return: there is no timeout); and once
\* the producer has closed the stream or offers an error-bearing message, run
\* eventually returns.
C17_LeavesLoopOnCloseOrError ==
    /\ [][(pc = "stream" /\ pc' # "stream") =>
             \/ (closed /\ offer = NoMsg)
             \/ (offer # NoMsg /\ MsgIsError(offer) /\ ret' = offer.Error)]_vars
    /\ [][WaitingOnStream =>
             pc' = "stream" /\ trace' = trace /\ ret' = ret
             /\ consumed' = consumed]_vars
    /\ ((pc = "stream" /\ StreamOver) ~> (pc = "done" /\ ret # "pending"))

\* run waited on an open stream, took a message, and returned after the
\* producer closed the stream
C17_Witness ==
    /\ pc = "done" /\ ret = "nil" /\ closed
    /\ Len(consumed) = MaxMsgs
    /\ Happened("closed")

\* the calls of run to the remote service, by request
ExecuteCalls == Events({"Execute", "ExecuteFailed"})
ResultsCalls == Events({"Results", "ResultsFailed"})
DeleteCalls == Events({"Delete", "DeleteFailed"})

\* C18: under every interleaving with the producer, Execute is called at most
\* once, exactly once by the time run is past the submission, and before
\* every other request and every message; messages are received only between
\* the successful Execute and the end of the stream; Results is called at most
\* once and only after the stream was closed; Delete is called at most once
\* and only after Results returned.
C18_SubmitStreamFinalize ==
    /\ Cardinality(ExecuteCalls) <= 1
    /\ pc \notin {"start", "execute"} /\ ret # "errOutput" =>
          Cardinality(ExecuteCalls) = 1
    /\ \A i \in Events(RemoteCalls) \ ExecuteCalls :
          \E e \in Pos("Execute") : e < i
    /\ \A m \in Pos("recv") :
          /\ \E e \in Pos("Execute") : e < m
          /\ \A c \in Pos("closed") : m < c
          /\ \A r \in ResultsCalls \cup DeleteCalls : m < r
    /\ Cardinality(Pos("closed")) <= 1
    /\ Cardinality(ResultsCalls) <= 1
    /\ \A r \in ResultsCalls : \E c \in Pos("closed") : c < r
    /\ Cardinality(DeleteCalls) <= 1
    /\ \A d \in DeleteCalls : \E r \in Pos("Results") : r < d

\* a run that submitted, received every message of the stream, fetched the
\* results after the stream was closed and deleted the job
C18_Witness ==
    /\ pc = "done" /\ ret = "nil"
    /\ Cardinality(Pos("recv")) = MaxMsgs
    /\ Happened("Results") /\ Happened("Delete")

\* the status observed last: that of the last message taken from the stream,
\* or the one the job was submitted with when no message was taken
LatestStatus ==
    IF consumed = <<>> THEN job.Status ELSE consumed[Len(consumed)].Status

\* the messages taken from the stream that carry no error
Echoable == {i \in 1..Len(consumed) : ~MsgIsError(consumed[i])}

\* C19: once the stream has ended, the tracked status is the latest observed
\* one, with verbose set or not; the finalization starts exactly when that
\* status is not ERROR and the request is not in background mode, and the
\* final report comes with that status; verbose decides the echo alone: every
\* message without error is echoed right after it is received when verbose is
\* set, and nothing is echoed when it is not.
C19_LatestStatusDecides ==
    /\ Happened("closed") =>
          /\ status = LatestStatus
          /\ (pc = "zip" \/ Events(FinalizeEvents) # {}) <=>
                (LatestStatus # "ERROR" /\ ~Background)
    /\ Happened("Finished") => status = LatestStatus /\ status # "ERROR"
    /\ pc \in {"stream", "zip", "results", "close", "delete", "report"} =>
          status = LatestStatus
    /\ Cardinality(Pos("echo")) = IF verbose THEN Cardinality(Echoable) ELSE 0
    /\ \A i \in Pos("echo") : i > 1 /\ trace[i - 1] = "recv"

\* a quiet run whose last message changed the status, finalized and reported
C19_Witness ==
    /\ ~verbose /\ pc = "done" /\ Happened("Finished")
    /\ consumed # <<>> /\ LatestStatus # job.Status
    /\ job.Status = "ERROR"

\* the Job Request as newJobRequest returns it (scripts.go:36-42)
EmptyRequest ==
    reqInputs = EmptyMap /\ reqOptions = EmptyMap /\ reqPriority = <<>>

\* C20 (as claimed): every invocation of a script command starts from an empty
\* Job Request: before the first handler call of a command line the request
\* holds no input, no option and no priority, whatever the earlier command
\* lines stored.
C20_RequestNeverReused ==
    hkind = "none" => EmptyRequest

\* the first invocation does start from an empty request
FirstInvocationStartsEmpty ==
    (invocation = 1 /\ hkind = "none") => EmptyRequest

-----------------------------------------------------------------------------
(* storeLastId: two invocations writing the file at LastIdPath at once *)

\* length of a job id
MaxIdLen == 2

\* the ids the service hands out: text of any length from one character on
IdChars == {"j", "k"}
StoreIds == SeqUpTo(IdChars, MaxIdLen) \ {<<>>}

\* the file as an earlier submission left it
OldContent == <<"o", "l", "d", "i", "d">>

\* scripts.go:438  os.Create truncates the file, or creates it empty
Truncated(content) == <<>>

\* scripts.go:445  file.Write on a descriptor opened by os.Create: the bytes
\* go to offset 0 of the file and replace what is there, whatever lies
\* beyond them stays
WriteAppends(content, bytes) == content \o bytes
WriteAt0(content, bytes) ==
    bytes \o SubSeq(content, Len(bytes) + 1, Len(content))

InitStore ==
    /\ fileBytes \in {NoFile, OldContent}
    /\ wpc = [w \in Writers |-> "create"]
    /\ wid \in [Writers -> StoreIds]
    /\ werr = [w \in Writers |-> "pending"]
    /\ IdleRun /\ IdleSynth /\ IdleHandlers /\ IdleValidate /\ IdleResolve

\* scripts.go:438-441  file, err := os.Create(LastIdPath)
StoreLastIdCreate(w) ==
    /\ wpc[w] = "create"
    /\ \E ok \in BOOLEAN :
          IF ok
          THEN /\ fileBytes' = Truncated(fileBytes)
               /\ wpc' = [wpc EXCEPT ![w] = "write"]
               /\ UNCHANGED werr
          ELSE /\ wpc' = [wpc EXCEPT ![w] = "done"]
               /\ werr' = [werr EXCEPT ![w] = "errCreate"]
               /\ UNCHANGED fileBytes
    /\ UNCHANGED <<wid, runVars, synthVars, handlerVars, validateVars,
                   resolveVars>>

\* scripts.go:442-448  file.Write([]byte(id)) and the deferred Close; a failed
\* Write has put some of the bytes, never all, into the file
StoreLastIdWrite(w) ==
    /\ wpc[w] = "write"
    /\ \E n \in 0..Len(wid[w]) :
          /\ fileBytes' = WriteAt0(fileBytes, SubSeq(wid[w], 1, n))
          /\ werr' = [werr EXCEPT ![w] = IF n = Len(wid[w]) THEN "nil"
                                         ELSE "errWrite"]
    /\ wpc' = [wpc EXCEPT ![w] = "done"]
    /\ UNCHANGED <<wid, runVars, synthVars, handlerVars, validateVars,
                   resolveVars>>

NextStore ==
    \/ \E w \in Writers : StoreLastIdCreate(w)
    \/ \E w \in Writers : StoreLastIdWrite(w)

SpecStore == InitStore /\ [][NextStore]_vars

\* both invocations have returned from storeLastId without error
BothStored == \A w \in Writers : wpc[w] = "done" /\ werr[w] = "nil"

C22_ErrorStatusReturnsNil ==
    (Happened("closed") /\ LatestStatus = "ERROR") =>
        /\ pc = "done" /\ ret = "nil"
        /\ Events(FinalizeEvents) = {}
        /\ trace[Len(trace)] = "closed"

\* a foreground run without the persistent flag whose last message carried
\* the status ERROR: it returned nil and the job was not deleted
C22_Witness ==
    /\ ~Background /\ ~persistent
    /\ Happened("closed") /\ consumed # <<>> /\ LatestStatus = "ERROR"
    /\ job.Status # "ERROR"
    /\ pc = "done" /\ ret = "nil" /\ ~Happened("Delete")

====
